---- MODULE Spec2Model ----
(***************************************************************************)
(* A model of decompiler/screendecompiler.py (SLDecompiler): the           *)
(* reconstruction of Ren'Py screen language 1 source from the flattened    *)
(* python text of a compiled screen.                                       *)
(*                                                                         *)
(* Text is a sequence of one-character strings, so that every string       *)
(* method and regular expression of the source is computed character by    *)
(* character.  A printing method is an operator from a printer state       *)
(* (output lines, indent_level, a raised exception, and a log of the       *)
(* calls and returns made) to the printer state it leaves behind.          *)
(***************************************************************************)
EXTENDS Integers, Sequences, FiniteSets, TLC

VARIABLES op, arg, st, ret, pc
vars == <<op, arg, st, ret, pc>>

\* ------------------------------------------------------------------------
\* Python string methods, on sequences of characters
\* ------------------------------------------------------------------------

NL == "\n"
BS == "\\"

IsDigit(c) == c \in {"0", "1", "2", "3", "4", "5", "6", "7", "8", "9"}
IsLetter(c) == c \in {"a", "b", "c", "d", "e", "f", "g", "h", "i", "j", "k", "l", "m",
                      "n", "o", "p", "q", "r", "s", "t", "u", "v", "w", "x", "y", "z"}
\* the whitespace str.strip() removes; the model's texts hold only these two
IsSpace(c) == c \in {" ", NL}

MinOf(S) == CHOOSE x \in S : \A y \in S : x <= y
MaxOf(S) == CHOOSE x \in S : \A y \in S : x >= y

\* Python evaluates an argument once, before the call.
\*     CHOOSE r \in {e : x \in {v}} : TRUE
\* is e where x is the value of v: the operators below that use an argument
\* or an intermediate result more than once take its value this way, the
\* bindings reading from the last line of the operator upwards.

\* n blanks
Blanks(n) == [i \in 1..n |-> " "]

\* s[i:] and s[:i] with python's 0-based, clamped slice bounds
From(s_, i) ==
    CHOOSE r \in {(
    IF i >= Len(s) THEN <<>> ELSE SubSeq(s, i + 1, Len(s)))
    : s \in {s_}} : TRUE
Upto(s_, i) ==
    CHOOSE r \in {(
    IF i >= Len(s) THEN s ELSE SubSeq(s, 1, i))
    : s \in {s_}} : TRUE

\* whether the literal lit stands in s at (1-based) position i
LitAt(s_, i_, lit_) ==
    CHOOSE r \in {(
    /\ i >= 1
    /\ i + Len(lit) - 1 <= Len(s)
    /\ SubSeq(s, i, i + Len(lit) - 1) = lit)
    : s \in {s_}, i \in {i_}, lit \in {lit_}} : TRUE

StartsWith(s, p) == LitAt(s, 1, p)
EndsWith(s_, p_) ==
    CHOOSE r \in {(
    Len(p) <= Len(s) /\ LitAt(s, Len(s) - Len(p) + 1, p))
    : s \in {s_}, p \in {p_}} : TRUE

\* s.find(sub): the 1-based position of the first occurrence, 0 when there is none
FindStr(s_, sub_) ==
    CHOOSE r \in {(
    LET I == {i \in 1..Len(s) : LitAt(s, i, sub)}
    IN IF I = {} THEN 0 ELSE MinOf(I))
    : s \in {s_}, sub \in {sub_}} : TRUE
\* s.rfind(sub)
RFindStr(s_, sub_) ==
    CHOOSE r \in {(
    LET I == {i \in 1..Len(s) : LitAt(s, i, sub)}
    IN IF I = {} THEN 0 ELSE MaxOf(I))
    : s \in {s_}, sub \in {sub_}} : TRUE

Contains(s, sub) == FindStr(s, sub) # 0

\* s.split(sep, 1)
Split1(s_, sep_) ==
    CHOOSE r \in {(
    LET i == FindStr(s, sep)
    IN IF i = 0 THEN <<s>>
       ELSE <<SubSeq(s, 1, i - 1), SubSeq(s, i + Len(sep), Len(s))>>)
    : s \in {s_}, sep \in {sep_}} : TRUE
\* s.rsplit(sep, 1)
RSplit1(s_, sep_) ==
    CHOOSE r \in {(
    LET i == RFindStr(s, sep)
    IN IF i = 0 THEN <<s>>
       ELSE <<SubSeq(s, 1, i - 1), SubSeq(s, i + Len(sep), Len(s))>>)
    : s \in {s_}, sep \in {sep_}} : TRUE

\* s.splitlines(): a final line break ends the last line and begins no new one
SplitLines(s_) ==
    CHOOSE r \in {(
    LET breaks == {i \in 1..Len(s) : s[i] = NL}
        \* where line k ends: at the k-th line break, or at the end of s
        stop(k) == IF k > Cardinality(breaks) THEN Len(s) + 1
                   ELSE CHOOSE i \in breaks : Cardinality({j \in breaks : j < i}) = k - 1
        n == Cardinality(breaks) + (IF s # <<>> /\ s[Len(s)] # NL THEN 1 ELSE 0)
    IN [k \in 1..n |-> SubSeq(s, (IF k = 1 THEN 0 ELSE stop(k - 1)) + 1, stop(k) - 1)])
    : s \in {s_}} : TRUE

\* sep.join(items), the items joined half by half
RECURSIVE Join(_, _)
Join(sep_, items_) ==
    CHOOSE r \in {(
    IF items = <<>> THEN <<>>
    ELSE IF Len(items) = 1 THEN items[1]
    ELSE LET h == Len(items) \div 2
         IN Join(sep, SubSeq(items, 1, h)) \o sep \o Join(sep, SubSeq(items, h + 1, Len(items))))
    : sep \in {sep_}, items \in {items_}} : TRUE

\* '\n'.join(lines)
JoinNL(lines) == Join(<<NL>>, lines)

\* s.lstrip() and s.rstrip(): s from its first, and up to its last, character
\* that is no whitespace
LStrip(s_) ==
    CHOOSE r \in {(
    LET I == {i \in 1..Len(s) : ~IsSpace(s[i])}
    IN IF I = {} THEN <<>> ELSE SubSeq(s, MinOf(I), Len(s)))
    : s \in {s_}} : TRUE
RStrip(s_) ==
    CHOOSE r \in {(
    LET I == {i \in 1..Len(s) : ~IsSpace(s[i])}
    IN IF I = {} THEN <<>> ELSE SubSeq(s, 1, MaxOf(I)))
    : s \in {s_}} : TRUE
Strip(s) == RStrip(LStrip(s))

\* len(line) - len(line.lstrip())
IndentOf(line_) ==
    CHOOSE r \in {(
    Len(line) - Len(LStrip(line)))
    : line \in {line_}} : TRUE

\* the first position at or after i that holds no space (regex " *")
SkipBlanks(s_, i_) ==
    CHOOSE r \in {(
    MinOf({j \in i..Len(s) : s[j] # " "} \cup {MaxOf({i, Len(s) + 1})}))
    : s \in {s_}, i \in {i_}} : TRUE
\* the first position at or after i that holds no digit (regex "[0-9]*")
SkipDigits(s_, i_) ==
    CHOOSE r \in {(
    MinOf({j \in i..Len(s) : ~IsDigit(s[j])} \cup {MaxOf({i, Len(s) + 1})}))
    : s \in {s_}, i \in {i_}} : TRUE

\* ------------------------------------------------------------------------
\* Header codec
\* ------------------------------------------------------------------------

\* stands for the alternative '[0-9]+|name' in the place of a parent id
AnyParent == <<>>

\* The match of  ' *_([0-9]+) = \(_(PARENT), _?([0-9]+)\) *\n?'  beginning at
\* position i of s, where PARENT is '[0-9]+|name' (parent = AnyParent) or the
\* given literal.  stop is the position after the match.
HeaderAt(s_, i_, parent_) ==
    CHOOSE r \in {(
    CHOOSE r \in {(
    CHOOSE r \in {(
    CHOOSE r \in {(
    CHOOSE r \in {(
    CHOOSE r \in {(
    CHOOSE r \in {(
    CHOOSE r \in {(
    IF /\ LitAt(s, a, <<"_">>)
       /\ b > a + 1
       /\ LitAt(s, b, <<" ", "=", " ", "(", "_">>)
       /\ IF parent # AnyParent THEN LitAt(s, d, parent) ELSE e > d
       /\ LitAt(s, e, <<",", " ">>)
       /\ h > g
       /\ LitAt(s, h, <<")">>)
    THEN [ok |-> TRUE,
          stop |-> IF LitAt(s, k, <<NL>>) THEN k + 1 ELSE k,
          own |-> SubSeq(s, a + 1, b - 1),
          parent |-> SubSeq(s, d, e - 1),
          index |-> SubSeq(s, g, h - 1)]
    ELSE [ok |-> FALSE, stop |-> 0, own |-> <<>>, parent |-> <<>>, index |-> <<>>])
    : k \in {SkipBlanks(s, h + 1)}} : TRUE)
    : h \in {SkipDigits(s, g)}} : TRUE)
    : g \in {IF LitAt(s, e + 2, <<"_">>) THEN e + 3 ELSE e + 2}} : TRUE)
    : e \in {IF parent # AnyParent THEN d + Len(parent)
         ELSE IF LitAt(s, d, <<"n", "a", "m", "e">>) THEN d + 4
         ELSE SkipDigits(s, d)}} : TRUE)
    : d \in {b + 5}} : TRUE)
    : b \in {SkipDigits(s, a + 1)}} : TRUE)
    : a \in {SkipBlanks(s, i)}} : TRUE)
    : s \in {s_}, i \in {i_}, parent \in {parent_}} : TRUE

\* the leftmost position at or after i where the header pattern matches, 0 if none
SearchHeader(s_, i_, parent_) ==
    CHOOSE r \in {(
    LET I == {j \in i..Len(s) : HeaderAt(s, j, parent).ok}
    IN IF I = {} THEN 0 ELSE MinOf(I))
    : s \in {s_}, i \in {i_}, parent \in {parent_}} : TRUE

\* parse_header: re.search of the header pattern; the groups, or None
\* (ok = FALSE stands for None)
parse_header(header_) ==
    CHOOSE r \in {(
    CHOOSE r \in {(
    HeaderAt(IF i = 0 THEN <<>> ELSE header, IF i = 0 THEN 1 ELSE i, AnyParent))
    : i \in {SearchHeader(header, 1, AnyParent)}} : TRUE)
    : header \in {header_}} : TRUE

\* re.split(r'( *_[0-9]+ = \(_%s, _?[0-9]+\) *\n?)' % parent_id, code):
\* [text before the first header, header1, text1, header2, text2, ...]
RECURSIVE ReSplit(_, _)
ReSplit(s_, parent_) ==
    CHOOSE r \in {(
    CHOOSE r \in {(
    IF i = 0 THEN <<s>>
    ELSE CHOOSE r \in {(
         <<SubSeq(s, 1, i - 1), SubSeq(s, i, m.stop - 1)>>
         \o ReSplit(SubSeq(s, m.stop, Len(s)), parent))
    : m \in {HeaderAt(s, i, parent)}} : TRUE)
    : i \in {SearchHeader(s, 1, parent)}} : TRUE)
    : s \in {s_}, parent \in {parent_}} : TRUE

\* ------------------------------------------------------------------------
\* Argument parser
\* ------------------------------------------------------------------------

IsQuote(c) == c \in {"'", "\""}
\* (a variant: only a parenthesis opens a container)
IsOpen_round(c) == c = "("
IsOpen(c) == c \in {"[", "(", "{"}
IsClose(c) == c \in {"]", ")", "}"}
\* [a-zA-Z0-9_]
IsWord(c) == IsLetter(c) \/ IsDigit(c) \/ c = "_"

\* (a variant: no backslash is counted, so that every quote of the open kind
\* closes the string)
count_trailing_slashes_none(split) == 0

\* count_trailing_slashes: the backslashes that end split
count_trailing_slashes(split_) ==
    CHOOSE r \in {(
    Len(split) - MaxOf({i \in 1..Len(split) : split[i] # BS} \cup {0}))
    : split \in {split_}} : TRUE

\* re.match(r'.*?\((.*)\)', string): group 1, the text between the first "("
\* and the last ")" after it on the first line; the string itself when the
\* pattern does not match
IsolateArguments(string_) ==
    CHOOSE r \in {(
    CHOOSE r \in {(
    CHOOSE r \in {(
    IF i # 0 /\ j > i THEN SubSeq(line, i + 1, j - 1) ELSE string)
    : i \in {FindStr(line, <<"(">>)}, j \in {RFindStr(line, <<")">>)}} : TRUE)
    : line \in {Split1(string, <<NL>>)[1]}} : TRUE)
    : string \in {string_}} : TRUE

\* The stack after the character is read (lines 431-445).  The bottom entry
\* None is written "None"; reading stack[-1] of an empty stack raises.
StackAfter(stack_, character, current_parse_) ==
    CHOOSE r \in {(
    IF IsQuote(character)
    THEN IF ~IsQuote(stack[Len(stack)])
         THEN Append(stack, character)
         ELSE IF character = stack[Len(stack)] /\ count_trailing_slashes(current_parse) % 2 = 0
         THEN SubSeq(stack, 1, Len(stack) - 1)
         ELSE stack
    ELSE IF ~IsQuote(stack[Len(stack)])
    THEN IF IsOpen(character) THEN Append(stack, character)
         ELSE IF IsClose(character) THEN SubSeq(stack, 1, Len(stack) - 1)
         ELSE stack
    ELSE stack)
    : stack \in {stack_}, current_parse \in {current_parse_}} : TRUE

\* Whether the character just read, with the stack it left, is a split
SplitsHere(stack, character) == Len(stack) = 1 /\ character = ","

\* One turn of the loop of lines 427-453, for character i: the stack, the
\* argument being read, the arguments split off, the positions of the commas
\* they were split at, and whether stack[-1] was read of an empty stack
\* (IndexError).
ScanCharacter(string_, i, scan_) ==
    CHOOSE r \in {(
    IF scan.err # "ok" THEN scan
    ELSE IF scan.stack = <<>> THEN [scan EXCEPT !.err = "IndexError"]
    ELSE CHOOSE r \in {(
         CHOOSE r \in {(
         IF SplitsHere(stack2, character)
         THEN [stack |-> stack2, current_parse |-> <<>>,
               arguments |-> Append(scan.arguments, Strip(scan.current_parse)),
               splits |-> Append(scan.splits, i), err |-> "ok"]
         ELSE [scan EXCEPT !.stack = stack2,
                           !.current_parse = Append(@, character)])
         : stack2 \in {StackAfter(scan.stack, character, scan.current_parse)}} : TRUE)
    : character \in {string[i]}} : TRUE)
    : string \in {string_}, scan \in {scan_}} : TRUE

\* The loop over characters lo..hi, one half of them after the other
RECURSIVE ScanArguments(_, _, _, _)
ScanArguments(string_, lo, hi, scan_) ==
    CHOOSE r \in {(
    IF lo > hi THEN scan
    ELSE IF lo = hi THEN ScanCharacter(string, lo, scan)
    ELSE CHOOSE r \in {(
         CHOOSE r \in {(
         IF half.err # "ok" THEN half ELSE ScanArguments(string, mid + 1, hi, half))
         : half \in {ScanArguments(string, lo, mid, scan)}} : TRUE)
    : mid \in {(lo + hi) \div 2}} : TRUE)
    : string \in {string_}, scan \in {scan_}} : TRUE

\* re.match('^[a-zA-Z0-9_]+ *=[^=]', argument)
SkipWord(s_, i_) ==
    CHOOSE r \in {(
    MinOf({j \in i..Len(s) : ~IsWord(s[j])} \cup {MaxOf({i, Len(s) + 1})}))
    : s \in {s_}, i \in {i_}} : TRUE
IsKeywordArgument(argument_) ==
    CHOOSE r \in {(
    CHOOSE r \in {(
    CHOOSE r \in {(
    a > 1 /\ LitAt(argument, b, <<"=">>) /\ b + 1 <= Len(argument)
    /\ argument[b + 1] # "=")
    : b \in {SkipBlanks(argument, a)}} : TRUE)
    : a \in {SkipWord(argument, 1)}} : TRUE)
    : argument \in {argument_}} : TRUE

NoCapture == <<"None">>

\* The classification of lines 456-470, the arguments taken in order
RECURSIVE ClassifyArguments(_, _)
ClassifyArguments(arguments_, acc_) ==
    CHOOSE r \in {(
    IF arguments = <<>> THEN acc
    ELSE CHOOSE r \in {(
         ClassifyArguments(
             Tail(arguments),
             IF IsKeywordArgument(argument)
             THEN CHOOSE r \in {(
                  [acc EXCEPT !.kwargs = Append(@, <<Strip(nv[1]), Strip(nv[2])>>)])
             : nv \in {Split1(argument, <<"=">>)}} : TRUE
             ELSE IF StartsWith(argument, <<"*", "*">>)
             THEN [acc EXCEPT !.exkwargs = <<"Some">> \o From(argument, 2)]
             ELSE IF StartsWith(argument, <<"*">>)
             THEN [acc EXCEPT !.exargs = <<"Some">> \o From(argument, 1)]
             ELSE [acc EXCEPT !.args = Append(@, argument)]))
    : argument \in {arguments[1]}} : TRUE)
    : arguments \in {arguments_}, acc \in {acc_}} : TRUE

\* parse_args: (args, kwargs, exargs, exkwargs); splits records where the
\* string was split.  A capture is None or the captured text after "Some".
parse_args(string_) ==
    CHOOSE r \in {(
    CHOOSE r \in {(
    CHOOSE r \in {(
    LET empty == [args |-> <<>>, kwargs |-> <<>>, exargs |-> NoCapture,
                  exkwargs |-> NoCapture, err |-> scan.err, inner |-> inner,
                  splits |-> scan.splits]
    IN IF scan.err # "ok" THEN empty
       ELSE ClassifyArguments(Append(scan.arguments, Strip(scan.current_parse)), empty))
    : scan \in {ScanArguments(inner, 1, Len(inner),
                       [stack |-> <<"None">>, current_parse |-> <<>>,
                        arguments |-> <<>>, splits |-> <<>>, err |-> "ok"])}} : TRUE)
    : inner \in {IsolateArguments(string)}} : TRUE)
    : string \in {string_}} : TRUE

\* ------------------------------------------------------------------------
\* The printer state and the writer (DecompilerBase)
\* ------------------------------------------------------------------------

\* The printer state: out, the output lines, each with the indent_level it was
\* begun at; lvl, indent_level; err, the exception raised ("ok": none); opt,
\* the constructor's flags; order, the order dispatch.iteritems() yields its
\* entries in; and three logs: calls, the (header, code) pairs given to
\* print_node; disp, the handler each print_node invoked; rets, the
\* indent_level at entry and at return of every printing method that returned.
\* stack holds the calls of print_nodes and print_python that have not
\* returned, each with the length of its text, the innermost last; entered
\* logs every such call with the stack it was made on.
NewPrinter(indent_level, opt, order) ==
    [out |-> <<>>, lvl |-> indent_level, err |-> "ok", opt |-> opt, order |-> order,
     calls |-> <<>>, disp |-> <<>>, rets |-> <<>>, stack |-> <<>>, entered |-> <<>>]

\* the call of method fn on a text of n characters
Enter(s_, fn, n) ==
    CHOOSE r \in {(
    [s EXCEPT !.stack = Append(@, [fn |-> fn, text |-> n]),
              !.entered = Append(@, [fn |-> fn, text |-> n, from |-> s.stack])])
    : s \in {s_}} : TRUE

Raise(s_, exception) ==
    CHOOSE r \in {(
    IF s.err # "ok" THEN s ELSE [s EXCEPT !.err = exception])
    : s \in {s_}} : TRUE

\* indent(): begin a new line at the current indent_level
Indent(s_) ==
    CHOOSE r \in {(
    IF s.err # "ok" THEN s
    ELSE [s EXCEPT !.out = Append(@, [lvl |-> s.lvl, txt |-> <<>>])])
    : s \in {s_}} : TRUE

\* write(string): append to the line begun last
Write(s_, string_) ==
    CHOOSE r \in {(
    IF s.err # "ok" THEN s
    ELSE IF s.out = <<>> THEN [s EXCEPT !.out = <<[lvl |-> s.lvl, txt |-> string]>>]
    ELSE [s EXCEPT !.out[Len(s.out)].txt = @ \o string])
    : s \in {s_}, string \in {string_}} : TRUE

\* self.indent_level += n
AddLevel(s_, n) ==
    CHOOSE r \in {(
    IF s.err # "ok" THEN s ELSE [s EXCEPT !.lvl = @ + n])
    : s \in {s_}} : TRUE

\* the return of method fn, entered in state s0, in state s1
Return(s0, s1_, fn) ==
    CHOOSE r \in {(
    [s1 EXCEPT !.rets = IF s1.err # "ok" THEN @
                        ELSE Append(@, [fn |-> fn, entry |-> s0.lvl, exit |-> s1.lvl]),
               !.stack = IF s1.err # "ok" THEN @ ELSE s0.stack])
    : s1 \in {s1_}} : TRUE

\* simple_expression_guard: the stripped expression, in parentheses unless the
\* lexer reads it as one simple expression (here: unless it holds no space)
simple_expression_guard(s_) ==
    CHOOSE r \in {(
    IF Contains(t, <<" ">>) THEN <<"(">> \o t \o <<")">> ELSE t)
    : t \in {Strip(s_)}} : TRUE

\* ------------------------------------------------------------------------
\* Helper printing functions
\* ------------------------------------------------------------------------

RECURSIVE GuardAll(_)
GuardAll(args_) ==
    CHOOSE r \in {(
    IF args = <<>> THEN <<>>
    ELSE <<simple_expression_guard(args[1])>> \o GuardAll(Tail(args)))
    : args \in {args_}} : TRUE

\* the kwargs of print_arguments with the renpy-internal ones removed
RECURSIVE FilterKwargs(_)
FilterKwargs(kwargs_) ==
    CHOOSE r \in {(
    IF kwargs = <<>> THEN <<>>
    ELSE LET key == kwargs[1][1]
             value == kwargs[1][2]
             internal == \/ key = <<"i", "d">> /\ StartsWith(value, <<"_">>)
                         \/ key = <<"s", "c", "o", "p", "e">>
                            /\ value = <<"_", "s", "c", "o", "p", "e">>
         IN (IF internal THEN <<>> ELSE <<<<key, simple_expression_guard(value)>>>>)
            \o FilterKwargs(Tail(kwargs)))
    : kwargs \in {kwargs_}} : TRUE

RECURSIVE WriteKwargLines(_, _)
WriteKwargLines(s_, kwargs_) ==
    CHOOSE r \in {(
    IF kwargs = <<>> THEN s
    ELSE WriteKwargLines(Write(Indent(s), kwargs[1][1] \o <<" ">> \o kwargs[1][2]),
                         Tail(kwargs)))
    : s \in {s_}, kwargs \in {kwargs_}} : TRUE

RECURSIVE WriteKwargsInline(_, _)
WriteKwargsInline(s_, kwargs_) ==
    CHOOSE r \in {(
    IF kwargs = <<>> THEN s
    ELSE WriteKwargsInline(Write(s, <<" ">> \o kwargs[1][1] \o <<" ">> \o kwargs[1][2]),
                           Tail(kwargs)))
    : s \in {s_}, kwargs \in {kwargs_}} : TRUE

print_arguments(s0_, args_, kwargs0_, multiline) ==
    CHOOSE r \in {(
    IF s0.err # "ok" THEN s0
    ELSE CHOOSE r \in {(
         Return(s0,
                IF s0.opt.force_multiline_kwargs /\ ~s0.opt.comparable /\ kwargs # <<>>
                THEN AddLevel(WriteKwargLines(AddLevel(Write(s1, <<":">>), 1), kwargs), -1)
                ELSE CHOOSE r \in {(
                     IF multiline THEN Write(s3, <<":">>) ELSE s3)
                : s3 \in {WriteKwargsInline(s1, kwargs)}} : TRUE,
                "print_arguments"))
    : s1 \in {IF args # <<>>
               THEN Write(s0, <<" ">> \o Join(<<" ">>, GuardAll(args)))
               ELSE s0}, kwargs \in {FilterKwargs(kwargs0)}} : TRUE)
    : s0 \in {s0_}, args \in {args_}, kwargs0 \in {kwargs0_}} : TRUE

\* condition[1:-1] when the text starts with "(" and ends with ")"
StripParens(t_) ==
    CHOOSE r \in {(
    IF StartsWith(t, <<"(">>) /\ EndsWith(t, <<")">>)
    THEN SubSeq(t, 2, Len(t) - 1)
    ELSE t)
    : t \in {t_}} : TRUE

\* The text print_condition writes for a line (lines 205-217), or the exception
\* its subscripts and unpacking raise
ConditionText(statement_, line_) ==
    CHOOSE r \in {(
    CHOOSE r \in {(
    IF Len(parts) < 2 THEN [err |-> "IndexError", txt |-> <<>>]
    ELSE CHOOSE r \in {(
         IF statement = <<"f", "o", "r">>
         THEN CHOOSE r \in {(
              IF Len(ve) # 2 THEN [err |-> "ValueError", txt |-> <<>>]
              ELSE [err |-> "ok",
                    txt |-> StripParens(Strip(ve[1])) \o <<" ", "i", "n", " ">>
                            \o ve[2]])
         : ve \in {Split1(condition, <<" ", "i", "n", " ">>)}} : TRUE
         ELSE [err |-> "ok", txt |-> StripParens(Strip(condition))])
    : condition \in {Strip(parts[2])}} : TRUE)
    : parts \in {Split1(RSplit1(line, <<":">>)[1], statement)}} : TRUE)
    : statement \in {statement_}, line \in {line_}} : TRUE

print_condition(s0_, statement_, line_) ==
    CHOOSE r \in {(
    IF s0.err # "ok" THEN s0
    ELSE CHOOSE r \in {(
         IF c.err # "ok" THEN Raise(s0, c.err)
         ELSE Return(s0, Write(s0, statement \o <<" ">> \o c.txt \o <<":">>),
                     "print_condition"))
    : c \in {ConditionText(statement, line)}} : TRUE)
    : s0 \in {s0_}, statement \in {statement_}, line \in {line_}} : TRUE

\* ------------------------------------------------------------------------
\* Statement dispatcher and node printers
\* ------------------------------------------------------------------------

\* (a variant: a registry in which a statement and a longer one that begins
\* with it name different handlers)
dispatch_overlapping == <<
    [statement |-> <<"i", "f">>,
     func |-> "print_if"],
    [statement |-> <<"u", "i", ".", "t", "e", "x", "t">>,
     func |-> "print_ui"],
    [statement |-> <<"u", "i", ".", "t", "e", "x", "t", "b", "u", "t", "t", "o", "n">>,
     func |-> "print_hotspot"]>>

\* The class-wide registry, its entries in the order the class body adds them
dispatch == <<
    [statement |-> <<"i", "f">>,
     func |-> "print_if"],
    [statement |-> <<"f", "o", "r">>,
     func |-> "print_for"],
    [statement |-> <<"r", "e", "n", "p", "y", ".", "u", "s", "e", "_", "s", "c", "r", "e", "e", "n">>,
     func |-> "print_use"],
    [statement |-> <<"_", "s", "c", "o", "p", "e", ".", "s", "e", "t", "d", "e", "f", "a", "u", "l", "t">>,
     func |-> "print_default"],
    [statement |-> <<"u", "i", ".", "h", "o", "t", "s", "p", "o", "t", "_", "w", "i", "t", "h", "_", "c", "h", "i", "l", "d">>,
     func |-> "print_hotspot"],
    [statement |-> <<"u", "i", ".", "a", "d", "d">>,
     func |-> "print_ui"],
    [statement |-> <<"u", "i", ".", "i", "m", "a", "g", "e", "b", "u", "t", "t", "o", "n">>,
     func |-> "print_ui"],
    [statement |-> <<"u", "i", ".", "i", "n", "p", "u", "t">>,
     func |-> "print_ui"],
    [statement |-> <<"u", "i", ".", "k", "e", "y">>,
     func |-> "print_ui"],
    [statement |-> <<"u", "i", ".", "l", "a", "b", "e", "l">>,
     func |-> "print_ui"],
    [statement |-> <<"u", "i", ".", "t", "e", "x", "t">>,
     func |-> "print_ui"],
    [statement |-> <<"u", "i", ".", "n", "u", "l", "l">>,
     func |-> "print_ui"],
    [statement |-> <<"u", "i", ".", "m", "o", "u", "s", "e", "a", "r", "e", "a">>,
     func |-> "print_ui"],
    [statement |-> <<"u", "i", ".", "t", "e", "x", "t", "b", "u", "t", "t", "o", "n">>,
     func |-> "print_ui"],
    [statement |-> <<"u", "i", ".", "t", "i", "m", "e", "r">>,
     func |-> "print_ui"],
    [statement |-> <<"u", "i", ".", "b", "a", "r">>,
     func |-> "print_ui"],
    [statement |-> <<"u", "i", ".", "v", "b", "a", "r">>,
     func |-> "print_ui"],
    [statement |-> <<"u", "i", ".", "h", "o", "t", "b", "a", "r">>,
     func |-> "print_ui"],
    [statement |-> <<"u", "i", ".", "b", "u", "t", "t", "o", "n">>,
     func |-> "print_ui"],
    [statement |-> <<"u", "i", ".", "f", "r", "a", "m", "e">>,
     func |-> "print_ui"],
    [statement |-> <<"u", "i", ".", "t", "r", "a", "n", "s", "f", "o", "r", "m">>,
     func |-> "print_ui"],
    [statement |-> <<"u", "i", ".", "v", "i", "e", "w", "p", "o", "r", "t">>,
     func |-> "print_ui"],
    [statement |-> <<"u", "i", ".", "w", "i", "n", "d", "o", "w">>,
     func |-> "print_ui"],
    [statement |-> <<"u", "i", ".", "d", "r", "a", "g">>,
     func |-> "print_ui"],
    [statement |-> <<"u", "i", ".", "f", "i", "x", "e", "d">>,
     func |-> "print_ui"],
    [statement |-> <<"u", "i", ".", "g", "r", "i", "d">>,
     func |-> "print_ui"],
    [statement |-> <<"u", "i", ".", "h", "b", "o", "x">>,
     func |-> "print_ui"],
    [statement |-> <<"u", "i", ".", "s", "i", "d", "e">>,
     func |-> "print_ui"],
    [statement |-> <<"u", "i", ".", "v", "b", "o", "x">>,
     func |-> "print_ui"],
    [statement |-> <<"u", "i", ".", "i", "m", "a", "g", "e", "m", "a", "p">>,
     func |-> "print_ui"],
    [statement |-> <<"u", "i", ".", "d", "r", "a", "g", "g", "r", "o", "u", "p">>,
     func |-> "print_ui"]>>

\* The entries of the registry whose statement begins the body
Matching(body_) ==
    CHOOSE r \in {(
    {k \in 1..Len(dispatch) : StartsWith(code, dispatch[k].statement)})
    : code \in {LStrip(body_)}} : TRUE

\* The handler the loop of lines 169-174 reaches first, the entries being
\* yielded in the given order (a permutation of the registry's indices)
FirstMatch(order_, n, body_) ==
    CHOOSE r \in {(
    CHOOSE r \in {(
    IF I = {} THEN "print_python" ELSE dispatch[order[MinOf(I)]].func)
    : I \in {{k \in n..Len(order) : StartsWith(code, dispatch[order[k]].statement)}}} : TRUE)
    : order \in {order_}, code \in {LStrip(body_)}} : TRUE

\* re.match(r' *_[0-9]+ = 0', code)
SwallowsFirstLine(body_) ==
    CHOOSE r \in {(
    CHOOSE r \in {(
    CHOOSE r \in {(
    LitAt(body, a, <<"_">>) /\ b > a + 1 /\ LitAt(body, b, <<" ", "=", " ", "0">>))
    : b \in {SkipDigits(body, a + 1)}} : TRUE)
    : a \in {SkipBlanks(body, 1)}} : TRUE)
    : body \in {body_}} : TRUE

RECURSIVE print_nodes(_, _, _)
RECURSIVE print_node(_, _, _)
RECURSIVE NodesLoop(_, _, _)
RECURSIVE print_block(_, _)
RECURSIVE print_if(_, _, _)
RECURSIVE IfLines(_, _, _, _)
RECURSIVE print_for(_, _, _)
RECURSIVE print_ui(_, _, _)

\* The lines written below "python:", each cut by code_indent
RECURSIVE WritePythonLines(_, _, _)
WritePythonLines(s_, lines_, code_indent_) ==
    CHOOSE r \in {(
    IF lines = <<>> THEN s
    ELSE WritePythonLines(Write(Indent(s), From(lines[1], code_indent)), Tail(lines),
                          code_indent))
    : s \in {s_}, lines \in {lines_}, code_indent \in {code_indent_}} : TRUE

\* next(line for line in lines if line.strip())
RECURSIVE FirstCodeLine(_)
FirstCodeLine(lines_) ==
    CHOOSE r \in {(
    IF Strip(lines[1]) # <<>> THEN lines[1] ELSE FirstCodeLine(Tail(lines)))
    : lines \in {lines_}} : TRUE

print_python(s0_, header, body_) ==
    CHOOSE r \in {(
    IF s0.err # "ok" THEN s0
    ELSE CHOOSE r \in {(
         IF Contains(Strip(body), <<NL>>)
         THEN CHOOSE r \in {(
              CHOOSE r \in {(
              CHOOSE r \in {(
              Return(s0, AddLevel(WritePythonLines(s2, lines, code_indent), -1),
                     "print_python"))
              : code_indent \in {IndentOf(first)}, s2 \in {AddLevel(Write(s1, <<"p", "y", "t", "h", "o", "n", ":">>), 1)}} : TRUE)
              : first \in {FirstCodeLine(lines)}} : TRUE)
         : lines \in {SplitLines(body)}} : TRUE
         ELSE Return(s0, Write(s1, <<"$", " ">> \o Strip(body)), "print_python"))
    : s1 \in {Indent(Enter(s0, "print_python", Len(body)))}} : TRUE)
    : s0 \in {s0_}, body \in {body_}} : TRUE

\* the loop of print_nodes over split[1], split[3], ... (i counts from 1 here)
NodesLoop(s_, split_, i) ==
    CHOOSE r \in {(
    IF i + 1 > Len(split) \/ s.err # "ok" THEN s
    ELSE NodesLoop(print_node(s, split[i], split[i + 1]), split, i + 2))
    : s \in {s_}, split \in {split_}} : TRUE

print_nodes(s0_, body_, extra_indent) ==
    CHOOSE r \in {(
    IF s0.err # "ok" THEN s0
    ELSE CHOOSE r \in {(
         IF Len(split) = 1 THEN Return(s0, e, "print_nodes")
         ELSE CHOOSE r \in {(
              IF ~h.ok THEN Raise(e, "TypeError")
              ELSE CHOOSE r \in {(
                   CHOOSE r \in {(
                   Return(s0, AddLevel(s2, -extra_indent), "print_nodes"))
                   : s2 \in {NodesLoop(s1, parts, 2)}} : TRUE)
              : parts \in {ReSplit(body, h.parent)}, s1 \in {AddLevel(e, extra_indent)}} : TRUE)
         : h \in {parse_header(split[1])}} : TRUE)
    : split \in {Split1(body, <<NL>>)}, e \in {Enter(s0, "print_nodes", Len(body))}} : TRUE)
    : s0 \in {s0_}, body \in {body_}} : TRUE

\* (a variant: the block is printed at the level of its statement)
print_block_level(s0_, block_) ==
    CHOOSE r \in {(
    IF s0.err # "ok" THEN s0
    ELSE IF Len(block) > 2 /\ parse_header(block[1]).ok /\ parse_header(block[2]).ok
    THEN Return(s0, print_nodes(s0, JoinNL(Tail(block)), 0), "print_block")
    ELSE IF Len(block) > 1 /\ parse_header(block[1]).ok
    THEN Return(s0, print_nodes(s0, JoinNL(block), 0), "print_block")
    ELSE Return(s0, Write(Indent(s0), <<"p", "a", "s", "s">>), "print_block"))
    : s0 \in {s0_}, block \in {block_}} : TRUE

print_block(s0_, block_) ==
    CHOOSE r \in {(
    IF s0.err # "ok" THEN s0
    ELSE IF Len(block) > 2 /\ parse_header(block[1]).ok /\ parse_header(block[2]).ok
    THEN Return(s0, print_nodes(s0, JoinNL(Tail(block)), 1), "print_block")
    ELSE IF Len(block) > 1 /\ parse_header(block[1]).ok
    THEN Return(s0, print_nodes(s0, JoinNL(block), 1), "print_block")
    ELSE Return(s0,
                AddLevel(Write(Indent(AddLevel(s0, 1)), <<"p", "a", "s", "s">>), -1),
                "print_block"))
    : s0 \in {s0_}, block \in {block_}} : TRUE

\* The loop of print_if over enumerate(lines) from line i on (i counts from 1
\* here, and i > 1), current_block being empty at line i.  The lines before
\* the next elif or else line, or before the last line, are appended to
\* current_block in one step; that line j then prints the block.
IfLines(s_, lines_, i, if_indent_) ==
    CHOOSE r \in {(
    IF i > Len(lines) \/ s.err # "ok" THEN s
    ELSE LET IsElif(line) == StartsWith(From(line, if_indent), <<"e", "l", "i", "f">>)
             IsElse(line) == StartsWith(From(line, if_indent), <<"e", "l", "s", "e">>)
         IN CHOOSE r \in {(
            CHOOSE r \in {(
            CHOOSE r \in {(
            IF elif
            THEN IfLines(print_condition(Indent(s1), <<"e", "l", "i", "f">>, lines[j]),
                         lines, j + 1, if_indent)
            ELSE IF else
            THEN IfLines(Write(Indent(s1), <<"e", "l", "s", "e", ":">>),
                         lines, j + 1, if_indent)
            ELSE s1)
            : s1 \in {print_block(s, SubSeq(lines, i, IF elif \/ else THEN j - 1 ELSE j))}} : TRUE)
            : elif \in {IsElif(lines[j])}, else \in {IsElse(lines[j])}} : TRUE)
         : j \in {MinOf({k \in i..Len(lines) :
                          IsElif(lines[k]) \/ IsElse(lines[k]) \/ k = Len(lines)})}} : TRUE)
    : s \in {s_}, lines \in {lines_}, if_indent \in {if_indent_}} : TRUE

print_if(s0_, header, body_) ==
    CHOOSE r \in {(
    IF s0.err # "ok" THEN s0
    ELSE CHOOSE r \in {(
         IF Len(lines) < 2 THEN Raise(s0, "IndexError")
         ELSE IF ~parse_header(lines[2]).ok
         THEN Return(s0, print_python(s0, header, body), "print_if")
         ELSE Return(s0,
                     IfLines(print_condition(Indent(s0), <<"i", "f">>, lines[1]), lines, 2,
                             IndentOf(lines[1])),
                     "print_if"))
    : lines \in {SplitLines(body)}} : TRUE)
    : s0 \in {s0_}, body \in {body_}} : TRUE

print_for(s0_, header, body_) ==
    CHOOSE r \in {(
    IF s0.err # "ok" THEN s0
    ELSE CHOOSE r \in {(
         IF Len(lines) < 2 THEN Raise(s0, "IndexError")
         ELSE IF ~parse_header(lines[2]).ok
         THEN Return(s0, print_python(s0, header, body), "print_for")
         ELSE Return(s0,
                     print_block(print_condition(Indent(s0), <<"f", "o", "r">>, lines[1]),
                                 SubSeq(lines, 2, Len(lines) - 1)),
                     "print_for"))
    : lines \in {SplitLines(body)}} : TRUE)
    : s0 \in {s0_}, body \in {body_}} : TRUE

\* the kwargs of print_use without _scope and _name
RECURSIVE UseKwargs(_)
UseKwargs(kwargs_) ==
    CHOOSE r \in {(
    IF kwargs = <<>> THEN <<>>
    ELSE (IF kwargs[1][1] \in {<<"_", "s", "c", "o", "p", "e">>, <<"_", "n", "a", "m", "e">>}
          THEN <<>>
          ELSE <<kwargs[1][1] \o <<"=">> \o kwargs[1][2]>>)
         \o UseKwargs(Tail(kwargs)))
    : kwargs \in {kwargs_}} : TRUE

print_use(s0_, header, body_) ==
    CHOOSE r \in {(
    IF s0.err # "ok" THEN s0
    ELSE CHOOSE r \in {(
         IF p.err # "ok" THEN Raise(s0, p.err)
         ELSE IF p.args = <<>> THEN Raise(Indent(s0), "IndexError")
         ELSE CHOOSE r \in {(
              LET arglist == args \o kwargs
                             \o (IF p.exargs # NoCapture /\ Len(p.exargs) > 1
                                 THEN <<<<"*">> \o Tail(p.exargs)>> ELSE <<>>)
                             \o (IF p.exkwargs # NoCapture /\ Len(p.exkwargs) > 1
                                 THEN <<<<"*", "*">> \o Tail(p.exkwargs)>> ELSE <<>>)
                  some == \/ args # <<>> \/ kwargs # <<>>
                          \/ (p.exargs # NoCapture /\ Len(p.exargs) > 1)
                          \/ (p.exkwargs # NoCapture /\ Len(p.exkwargs) > 1)
              IN Return(s0,
                        IF some
                        THEN Write(s1, <<"(">> \o Join(<<",", " ">>, arglist) \o <<")">>)
                        ELSE s1,
                        "print_use"))
         : args \in {Tail(p.args)}, kwargs \in {UseKwargs(p.kwargs)}, s1 \in {Write(Indent(s0), <<"u", "s", "e", " ">>
                                      \o SubSeq(p.args[1], 3, Len(p.args[1]) - 1))}} : TRUE)
    : p \in {parse_args(Strip(body))}} : TRUE)
    : s0 \in {s0_}, body \in {body_}} : TRUE

print_default(s0_, header, body_) ==
    CHOOSE r \in {(
    IF s0.err # "ok" THEN s0
    ELSE CHOOSE r \in {(
         IF p.err # "ok" THEN Raise(s0, p.err)
         ELSE CHOOSE r \in {(
              IF Len(quoted) < 2 \/ Len(p.args) < 2
              THEN Raise(s0, "IndexError")
              ELSE LET key == RSplit1(quoted[2], <<"'">>)[1]
                       value == p.args[2]
                   IN Return(s0,
                             Write(Indent(s0), <<"d", "e", "f", "a", "u", "l", "t", " ">> \o key
                                               \o <<" ", "=", " ">> \o value),
                             "print_default"))
         : quoted \in {IF p.args = <<>> THEN <<>> ELSE Split1(p.args[1], <<"'">>)}} : TRUE)
    : p \in {parse_args(Strip(body))}} : TRUE)
    : s0 \in {s0_}, body \in {body_}} : TRUE

print_hotspot(s0_, header, body_) ==
    CHOOSE r \in {(
    IF s0.err # "ok" THEN s0
    ELSE CHOOSE r \in {(
         IF p.err # "ok" THEN Raise(s1, p.err)
         ELSE Return(s0, print_arguments(s1, p.args, p.kwargs, TRUE), "print_hotspot"))
    : s1 \in {Write(Indent(s0), <<"h", "o", "t", "s", "p", "o", "t">>)}, p \in {parse_args(Split1(body, <<NL>>)[1])}} : TRUE)
    : s0 \in {s0_}, body \in {body_}} : TRUE

\* (a variant: the block keeps the place it has in the text of its parent, the
\* header and the line of the widget being blanked out)
print_ui_offset(s0_, header, body_) ==
    CHOOSE r \in {(
    IF s0.err # "ok" THEN s0
    ELSE CHOOSE r \in {(
         CHOOSE r \in {(
         IF Len(after) < 2 THEN Raise(s0, "IndexError")
         ELSE CHOOSE r \in {(
              CHOOSE r \in {(
              IF p.err # "ok" THEN Raise(s1, p.err)
              ELSE Return(s0,
                          print_nodes(print_arguments(s1, p.args, p.kwargs, block # <<>>),
                                      Blanks(Len(header) + Len(line) + 1) \o block, 1),
                          "print_ui"))
              : block \in {IF Contains(split2[1], <<"u", "i", ".", "c", "h", "i", "l", "d",
                                           "_", "o", "r", "_", "f", "i", "x", "e",
                                           "d", "(", ")">>)
                   THEN IF Len(split2) = 2 THEN split2[2] ELSE <<>>
                   ELSE block0}} : TRUE)
         : s1 \in {Write(Indent(s0), Split1(after[2], <<"(">>)[1])}, p \in {parse_args(line)}, split2 \in {Split1(block0, <<NL>>)}} : TRUE)
         : line \in {split[1]}, block0 \in {IF Len(split) = 2 THEN split[2] ELSE <<>>}, after \in {Split1(split[1], <<"u", "i", ".">>)}} : TRUE)
    : split \in {Split1(body, <<NL>>)}} : TRUE)
    : s0 \in {s0_}, body \in {body_}} : TRUE

print_ui(s0_, header, body_) ==
    CHOOSE r \in {(
    IF s0.err # "ok" THEN s0
    ELSE CHOOSE r \in {(
         CHOOSE r \in {(
         IF Len(after) < 2 THEN Raise(s0, "IndexError")
         ELSE CHOOSE r \in {(
              CHOOSE r \in {(
              IF p.err # "ok" THEN Raise(s1, p.err)
              ELSE Return(s0,
                          print_nodes(print_arguments(s1, p.args, p.kwargs, block # <<>>),
                                      block, 1),
                          "print_ui"))
              : block \in {IF Contains(split2[1], <<"u", "i", ".", "c", "h", "i", "l", "d",
                                           "_", "o", "r", "_", "f", "i", "x", "e",
                                           "d", "(", ")">>)
                   THEN IF Len(split2) = 2 THEN split2[2] ELSE <<>>
                   ELSE block0}} : TRUE)
         : s1 \in {Write(Indent(s0), Split1(after[2], <<"(">>)[1])}, p \in {parse_args(line)}, split2 \in {Split1(block0, <<NL>>)}} : TRUE)
         : line \in {split[1]}, block0 \in {IF Len(split) = 2 THEN split[2] ELSE <<>>}, after \in {Split1(split[1], <<"u", "i", ".">>)}} : TRUE)
    : split \in {Split1(body, <<NL>>)}} : TRUE)
    : s0 \in {s0_}, body \in {body_}} : TRUE

\* func(self, header, code), func the handler found
CallHandler(func_, s_, header, body_) ==
    CHOOSE r \in {(
    CASE func = "print_if" -> print_if(s, header, body)
      [] func = "print_for" -> print_for(s, header, body)
      [] func = "print_use" -> print_use(s, header, body)
      [] func = "print_default" -> print_default(s, header, body)
      [] func = "print_hotspot" -> print_hotspot(s, header, body)
      [] func = "print_ui" -> print_ui(s, header, body)
      [] OTHER -> print_python(s, header, body))
    : func \in {func_}, s \in {s_}, body \in {body_}} : TRUE

print_node(s0_, header, body0_) ==
    CHOOSE r \in {(
    IF s0.err # "ok" THEN s0
    ELSE CHOOSE r \in {(
         IF swallow /\ Len(split) < 2 THEN Raise(s1, "ValueError")
         ELSE CHOOSE r \in {(
              CHOOSE r \in {(
              Return(s0,
                     CallHandler(func, [s1 EXCEPT !.disp = Append(@, func)], header, body),
                     "print_node"))
              : func \in {FirstMatch(s1.order, 1, body)}} : TRUE)
         : body \in {IF swallow THEN split[2] ELSE body0}} : TRUE)
    : s1 \in {[s0 EXCEPT !.calls = Append(@, <<header, body0>>)]}, swallow \in {SwallowsFirstLine(body0)}, split \in {Split1(body0, <<NL>>)}} : TRUE)
    : s0 \in {s0_}, body0 \in {body0_}} : TRUE

\* ------------------------------------------------------------------------
\* Entry point
\* ------------------------------------------------------------------------

\* reconstruct_paraminfo(ast.parameters): the parameter list as source text
reconstruct_paraminfo(parameters) == parameters

\* WordConcatenator(True).join(): nothing when no word was appended; else a
\* space, then the words, a space added after each but the last that ends in none
RECURSIVE ConcatWords(_)
ConcatWords(words_) ==
    CHOOSE r \in {(
    IF words = <<>> THEN <<>>
    ELSE IF Len(words) = 1 THEN words[1]
    ELSE (IF EndsWith(words[1], <<" ">>) THEN words[1] ELSE words[1] \o <<" ">>)
         \o ConcatWords(Tail(words)))
    : words \in {words_}} : TRUE
WordConcatenator_join(words) ==
    IF words = <<>> THEN <<>> ELSE <<" ">> \o ConcatWords(words)

\* codegen.to_source(ast.code.source, self.indentation): the flattened text
to_source(source) == source

ScreenKeys == <<<<"z", "o", "r", "d", "e", "r">>, <<"m", "o", "d", "a", "l">>,
                <<"v", "a", "r", "i", "a", "n", "t">>>>

\* The loop of lines 85-94 from key k on: the words for the screen line, the
\* texts for separate lines, and the IndexError of value[-1] of an empty value.
\* values[k] is the value of key k: whether it is unicode, and its text.
RECURSIVE ScreenKwargs(_, _, _)
ScreenKwargs(values_, k, acc_) ==
    CHOOSE r \in {(
    IF k > Len(ScreenKeys) \/ acc.err # "ok" THEN acc
    ELSE CHOOSE r \in {(
         IF ~value.unicode THEN ScreenKwargs(values, k + 1, acc)
            ELSE IF value.text = <<>> THEN [acc EXCEPT !.err = "IndexError"]
            ELSE IF value.text[Len(value.text)] # " " \/ guarded_value # Strip(value.text)
            THEN ScreenKwargs(values, k + 1,
                              [acc EXCEPT !.separate =
                                   Append(@, ScreenKeys[k] \o <<" ">> \o guarded_value)])
            ELSE ScreenKwargs(values, k + 1,
                              [acc EXCEPT !.line = @ \o <<ScreenKeys[k], value.text>>]))
    : value \in {values[k]}, guarded_value \in {simple_expression_guard(values[k].text)}} : TRUE)
    : values \in {values_}, acc \in {acc_}} : TRUE

RECURSIVE WriteLines(_, _)
WriteLines(s_, lines_) ==
    CHOOSE r \in {(
    IF lines = <<>> THEN s ELSE WriteLines(Write(Indent(s), lines[1]), Tail(lines)))
    : s \in {s_}, lines \in {lines_}} : TRUE

\* [line for line in lines if line.strip() != "ui.close()"]
DropClose(lines_) ==
    CHOOSE r \in {(
    LET Kept(line) == Strip(line) # <<"u", "i", ".", "c", "l", "o", "s", "e", "(", ")">>
    IN SelectSeq(lines, Kept))
    : lines \in {lines_}} : TRUE

\* lines[1:]
RestOf(lines) == IF lines = <<>> THEN <<>> ELSE Tail(lines)

print_screen(s0_, ast) ==
    CHOOSE r \in {(
    IF s0.err # "ok" THEN s0
    ELSE LET s1 == Write(Indent(s0), <<"s", "c", "r", "e", "e", "n", " ">> \o ast.name)
             s2 == IF ast.parameters # <<>>
                   THEN Write(s1, reconstruct_paraminfo(ast.parameters)) ELSE s1
             kw == ScreenKwargs(<<ast.zorder, ast.modal, ast.variant>>, 1,
                                [line |-> <<>>, separate |-> <<>>, err |-> "ok"])
         IN IF kw.err # "ok" THEN Raise(s2, kw.err)
            ELSE LET line == IF kw.separate # <<>>
                             THEN Append(kw.line, kw.separate[1]) ELSE kw.line
                     separate == IF kw.separate # <<>> THEN Tail(kw.separate) ELSE <<>>
                     s3 == AddLevel(Write(s2, WordConcatenator_join(line) \o <<":">>), 1)
                     s4 == WriteLines(s3, separate)
                     s5 == IF ast.tag # <<>>
                           THEN Write(Indent(s4), <<"t", "a", "g", " ">> \o ast.tag) ELSE s4
                     source == to_source(ast.source)
                 IN IF ~s0.opt.decompile_python
                    THEN Return(s0,
                                Write(Indent(s5),
                                      <<"p", "a", "s", "s", " ", "#", " ", "S", "c", "r", "e", "e", "n", " ", "c", "o", "d", "e", " ", "n", "o", "t", " ", "e", "x", "t", "r", "a", "c", "t", "e", "d">>),
                                "print_screen")
                    ELSE IF s0.opt.decompile_screencode
                    THEN Return(s0,
                                AddLevel(print_nodes(s5, JoinNL(DropClose(SplitLines(source))),
                                                     0), -1),
                                "print_screen")
                    ELSE Return(s0,
                                AddLevel(AddLevel(WriteLines(AddLevel(Write(Indent(s5),
                                            <<"p", "y", "t", "h", "o", "n", ":">>), 1),
                                            RestOf(SplitLines(source))), -1), -1),
                                "print_screen"))
    : s0 \in {s0_}} : TRUE

\* ------------------------------------------------------------------------
\* Inputs
\* ------------------------------------------------------------------------

\* the sequences over A of length at most n
SeqsUpTo(A, n) == UNION {[1..k -> A] : k \in 0..n}

Flatten(texts) == Join(<<>>, texts)

\* a header line "_own = (_parent, index)" after lead blanks
HeaderLine(lead, own, parent, index) ==
    Blanks(lead) \o <<"_">> \o own \o <<" ", "=", " ", "(", "_">> \o parent
    \o <<",", " ">> \o index \o <<")">>

Flags == [force_multiline_kwargs : BOOLEAN, comparable : BOOLEAN,
          decompile_python : BOOLEAN, decompile_screencode : BOOLEAN]
DefaultFlags == [force_multiline_kwargs |-> TRUE, comparable |-> FALSE,
                 decompile_python |-> TRUE, decompile_screencode |-> TRUE]

\* Orders in which dispatch.iteritems() may yield the registry: the order of
\* registration and its reverse (each pair of entries in both relative orders)
RegistrationOrder == [k \in 1..Len(dispatch) |-> k]
ReverseOrder == [k \in 1..Len(dispatch) |-> Len(dispatch) + 1 - k]
Orders == {RegistrationOrder, ReverseOrder}

\* --- parse_args: strings of quotes, backslashes and commas; strings of
\* brackets, commas and a quote; and the two calls of the specification
MaxQuoteLen == 5
MaxNestLen == 4
QuoteChars == {"\"", "'", BS, ",", "a"}
NestChars == {"[", "]", "{", ")", ",", "'"}
QuotedCall == <<"f", "(", "\"", "a", ",", "b", "\"", ",", " ", "x", "=", "1", ")">>
NestedCall == <<"f", "(", "[", "1", ",", "2", ",", "3", "]", ",", " ", "y", "=", "{", "'", "a", "'", ":", "1", "}", ")">>
ArgStrings ==
    SeqsUpTo(QuoteChars, MaxQuoteLen) \cup SeqsUpTo(NestChars, MaxNestLen)
    \cup {QuotedCall, NestedCall,
          <<"u", "i", ".", "t", "e", "x", "t", "(", "\"", "a", "\\", "\"", ",", "b", "\"", ",", " ", "*", "c", ",", " ", "*", "*", "d", ")">>,
          <<"g", "(", "a", "=", "(", "1", ",", "2", ")", ",", " ", "b", "=", "=", "c", ",", " ", "'", "x", ",", "\"", "y", "'", ",", " ", "e", ")">>}

\* --- print_condition: "<statement> <condition>:" after lead blanks, the
\* condition any text of parentheses, a name and blanks; for a loop the
\* condition is "<variables> in y"
MaxCondLen == 3
CondChars == {"(", ")", "a", " "}
KwIf == <<"i", "f">>
KwElif == <<"e", "l", "i", "f">>
KwElse == <<"e", "l", "s", "e">>
KwFor == <<"f", "o", "r">>
ConditionInputs ==
    [statement : {KwIf, KwElif, KwFor}, lead : {0, 4},
     cond : SeqsUpTo(CondChars, MaxCondLen)]
ConditionOf(a) ==
    IF a.statement = KwFor THEN a.cond \o <<" ", "i", "n", " ", "y">> ELSE a.cond
ConditionLine(a) ==
    Blanks(a.lead) \o a.statement \o <<" ">> \o ConditionOf(a) \o <<":">>

\* --- print_python: bodies of up to MaxPyLines lines, each a text (none, a
\* name, an assignment) after up to MaxPyIndent blanks, with or without a
\* final line break
MaxPyLines == 3
MaxPyIndent == 2
PyTexts == {<<>>, <<"a">>, <<"b", " ", "=", " ", "c">>}
PyLine == [ind : 0..MaxPyIndent, text : PyTexts]
RenderLine(l) == Blanks(l.ind) \o l.text
\* (an empty last line is a line only when a line break ends it)
PythonInputs ==
    {a \in [lines : UNION {[1..n -> PyLine] : n \in 1..MaxPyLines}, final : BOOLEAN,
            lvl : {0, 1}] :
        a.final \/ RenderLine(a.lines[Len(a.lines)]) # <<>>}
PythonBody(a) ==
    JoinNL([n \in 1..Len(a.lines) |-> RenderLine(a.lines[n])])
    \o (IF a.final THEN <<NL>> ELSE <<>>)

\* --- print_nodes: up to MaxSiblings headers of one parent, each after the
\* same lead blanks and followed by a line break or not and by a text that
\* holds no header; and texts that hold no header at all
MaxSiblings == 2
MaxPlainLen == 4
SiblingTexts == {<<>>, <<"x">>, <<"x", NL>>, <<" ", "x", NL, "x">>}
Sibling == [own : {<<"1">>, <<"2">>}, break : BOOLEAN, text : SiblingTexts]
SiblingInputs ==
    [parent : {<<"0">>, <<"n", "a", "m", "e">>}, lead : {0, 1},
     siblings : UNION {[1..n -> Sibling] : n \in 1..MaxSiblings},
     extra_indent : {0, 1}]
IndexDigit(n) == <<"0", "1", "2", "3", "4", "5", "6", "7", "8", "9">>[n]
SiblingHeader(a, n) ==
    HeaderLine(a.lead, a.siblings[n].own, a.parent, <<IndexDigit(n)>>)
    \o (IF a.siblings[n].break THEN <<NL>> ELSE <<>>)
SiblingsText(a) ==
    Flatten([n \in 1..Len(a.siblings) |-> SiblingHeader(a, n) \o a.siblings[n].text])
PlainChars == {"x", " ", NL}
PlainInputs == [plain : SeqsUpTo(PlainChars, MaxPlainLen), extra_indent : {0, 1}]

\* --- print_node: a statement (every registered one, and texts no statement
\* begins) after lead blanks and before a tail: nothing, a call, the rest of a
\* name that is assigned to, a condition before python code, a condition
\* before a child, a call before a child, a second line
NodeStems ==
    {dispatch[k].statement : k \in 1..Len(dispatch)}
    \cup {<<"x">>, <<"u", "i", ".">>, <<"_", "1", " ", "=", " ", "0">>}
NodeTails ==
    {<<>>,
     <<"(", "a", ")">>,
     <<"_", "x", " ", "=", " ", "1">>,
     <<" ", "a", " ", "i", "n", " ", "b", ":", "\n", " ", " ", " ", " ", "c", " ", "=", " ", "1">>,
     <<" ", "a", " ", "i", "n", " ", "b", ":", "\n", " ", " ", " ", " ", "_", "2", " ", "=", " ", "(", "_", "1", ",", " ", "0", ")", "\n", " ", " ", " ", " ", "u", "i", ".", "t", "e", "x", "t", "(", "c", ")", "\n">>,
     <<"(", "a", ")", "\n", "_", "2", " ", "=", " ", "(", "_", "1", ",", " ", "0", ")", "\n", "u", "i", ".", "t", "e", "x", "t", "(", "c", ")">>,
     <<"\n", "u", "i", ".", "t", "e", "x", "t", "(", "a", ")">>}
NodeInputs == [stem : NodeStems, tail : NodeTails, lead : {0, 1}, order : Orders]
NodeBody(a) == Blanks(a.lead) \o a.stem \o a.tail

\* --- print_if: "if a:", up to MaxElif elif branches and an else branch or
\* none, each branch with one child or two, a child being a widget
\* ui.text(<label>) or the python line <label> = 1 in turn.  The children's
\* headers name the if statement as their parent (layout "single") or a
\* header of the branch that stands before them (layout "double").
MaxElif == 2
BranchLetters == <<"a", "b", "c", "d", "e", "f">>
IfInputs ==
    UNION {[elifs : {e}, has_else : {x},
            children : [1..(1 + e + (IF x THEN 1 ELSE 0)) -> {1, 2}],
            layout : {"single", "double"}, first : {"widget", "python"},
            lead : {0, 4}, lvl : {0, 1}] : e \in 0..MaxElif, x \in BOOLEAN}
Branches(a) == 1 + a.elifs + (IF a.has_else THEN 1 ELSE 0)
BranchKeyword(a, b) ==
    IF b = 1 THEN KwIf \o <<" ", BranchLetters[b], ":">>
    ELSE IF b <= 1 + a.elifs THEN KwElif \o <<" ", BranchLetters[b], ":">>
    ELSE KwElse \o <<":">>
ChildKind(a, b, j) ==
    IF (b + j) % 2 = 0 THEN a.first
    ELSE IF a.first = "widget" THEN "python" ELSE "widget"
ChildLabel(b, j) == <<BranchLetters[b], IndexDigit(j + 1)>>
ChildCode(a, b, j) ==
    IF ChildKind(a, b, j) = "widget"
    THEN <<"u", "i", ".", "t", "e", "x", "t", "(">> \o ChildLabel(b, j) \o <<")">>
    ELSE ChildLabel(b, j) \o <<" ", "=", " ", "1">>
BranchId(b) == <<IndexDigit(b + 1), "0">>
ChildHeader(a, b, j) ==
    HeaderLine(a.lead + 4, <<IndexDigit(b + 1), IndexDigit(j + 1)>>,
               IF a.layout = "single" THEN <<"1">> ELSE BranchId(b), <<IndexDigit(j)>>)
BranchLines(a, b) ==
    (IF b = 1 THEN <<>> ELSE <<Blanks(a.lead) \o BranchKeyword(a, b)>>)
    \o (IF a.layout = "double"
        THEN <<HeaderLine(a.lead + 4, BranchId(b), <<"1">>, <<IndexDigit(b)>>)>>
        ELSE <<>>)
    \o Flatten([j \in 1..a.children[b] |->
                   <<ChildHeader(a, b, j), Blanks(a.lead + 4) \o ChildCode(a, b, j)>>])
IfBody(a) ==
    JoinNL(<<Blanks(a.lead) \o BranchKeyword(a, 1)>>
           \o Flatten([b \in 1..Branches(a) |-> BranchLines(a, b)]))

\* --- print_screen: a screen with or without parameters, a zorder given with
\* or without a space after it or not given, a modal given or not, a tag or
\* none, under every setting of the flags, over three flattened bodies
\* --- nested bodies: a chain of containers (a widget with children, an if, a
\* for), each the only child of the one before, around one or two leaves (a
\* widget without children, or python code); every line after lead blanks
MaxDepth == 2
Containers == {"ui", "if", "for"}
Leaves == {<<"u", "i", ".", "t", "e", "x", "t", "(", "a", ")">>, <<"a", " ", "=", " ", "1">>}
NestedInputs ==
    [chain : UNION {[1..n -> Containers] : n \in 1..MaxDepth}, leaf : Leaves,
     leaves : {1, 2}, lead : {0, 2}]
ParentId(k) == IF k = 1 THEN <<"n", "a", "m", "e">> ELSE <<IndexDigit(k)>>
\* the children of container k - 1 of the chain (of the screen, k = 1)
RECURSIVE NestedBody(_, _)
NestedBody(a, k) ==
    IF k > Len(a.chain)
    THEN Join(<<NL>>, [j \in 1..a.leaves |->
             HeaderLine(a.lead, <<IndexDigit(k + j)>>, ParentId(k), <<IndexDigit(j)>>)
             \o <<NL>> \o Blanks(a.lead) \o a.leaf])
    ELSE HeaderLine(a.lead, <<IndexDigit(k + 1)>>, ParentId(k), <<"0">>) \o <<NL>>
         \o Blanks(a.lead)
         \o (CASE a.chain[k] = "ui" ->
                   <<"u", "i", ".", "v", "b", "o", "x", "(", ")", NL>> \o NestedBody(a, k + 1)
               [] a.chain[k] = "if" ->
                   <<"i", "f", " ", "a", ":", NL>> \o NestedBody(a, k + 1)
               [] a.chain[k] = "for" ->
                   <<"f", "o", "r", " ", "i", " ", "i", "n", " ", "x", ":", NL>>
                   \o HeaderLine(a.lead, <<"9">>, <<IndexDigit(k + 1)>>, <<"_", "1">>)
                   \o <<NL>> \o NestedBody(a, k + 1) \o <<NL>> \o Blanks(a.lead)
                   \o <<"_", "1", " ", "+", "=", " ", "1">>)

ScreenValues ==
    {[unicode |-> FALSE, text |-> <<"0">>], [unicode |-> TRUE, text |-> <<"1">>],
     [unicode |-> TRUE, text |-> <<"1", " ">>],
     [unicode |-> TRUE, text |-> <<"a", " ", "b">>]}
ScreenSources ==
    {<<"_", "1", " ", "=", " ", "(", "_", "n", "a", "m", "e", ",", " ", "0", ")", "\n", "u", "i", ".", "t", "e", "x", "t", "(", "a", ")", "\n", "u", "i", ".", "c", "l", "o", "s", "e", "(", ")">>,
     <<"_", "1", " ", "=", " ", "(", "_", "n", "a", "m", "e", ",", " ", "0", ")", "\n", "i", "f", " ", "a", ":", "\n", " ", " ", " ", " ", "_", "2", " ", "=", " ", "(", "_", "1", ",", " ", "0", ")", "\n", " ", " ", " ", " ", "u", "i", ".", "t", "e", "x", "t", "(", "b", ",", " ", "i", "d", "=", "x", ")", "\n">>,
     <<"_", "1", " ", "=", " ", "(", "_", "n", "a", "m", "e", ",", " ", "0", ")", "\n", "b", " ", "=", " ", "1", "\n", "c", " ", "=", " ", "2">>}
ScreenInputs ==
    [name : {<<"s">>}, parameters : {<<>>, <<"(", "a", ")">>}, zorder : ScreenValues,
     modal : {[unicode |-> FALSE, text |-> <<"F", "a", "l", "s", "e">>],
              [unicode |-> TRUE, text |-> <<"T", "r", "u", "e", " ">>]},
     variant : {[unicode |-> FALSE, text |-> <<"N", "o", "n", "e">>]},
     tag : {<<>>, <<"t">>}, source : ScreenSources, opt : Flags, lvl : {0, 1}]

\* ------------------------------------------------------------------------
\* Specifications: each applies one operation to every input of its family
\* ------------------------------------------------------------------------

NoResult == <<>>
FreshPrinter == NewPrinter(0, DefaultFlags, RegistrationOrder)

InitParseArgs ==
    /\ op = "parse_args"
    /\ arg \in [string : ArgStrings]
    /\ st = FreshPrinter
    /\ ret = NoResult
    /\ pc = "call"

ParseArgs ==
    /\ pc = "call"
    /\ op = "parse_args"
    /\ ret' = parse_args(arg.string)
    /\ pc' = "done"
    /\ UNCHANGED <<op, arg, st>>

SpecArgs == InitParseArgs /\ [][ParseArgs]_vars

\* print_condition is entered after indent()
InitPrintCondition ==
    /\ op = "print_condition"
    /\ arg \in ConditionInputs
    /\ st = Indent(FreshPrinter)
    /\ ret = NoResult
    /\ pc = "call"

PrintCondition ==
    /\ pc = "call"
    /\ op = "print_condition"
    /\ st' = print_condition(st, arg.statement, ConditionLine(arg))
    /\ pc' = "done"
    /\ UNCHANGED <<op, arg, ret>>

SpecCondition == InitPrintCondition /\ [][PrintCondition]_vars

InitPrintPython ==
    /\ op = "print_python"
    /\ arg \in PythonInputs
    /\ st = NewPrinter(arg.lvl, DefaultFlags, RegistrationOrder)
    /\ ret = NoResult
    /\ pc = "call"

PrintPython ==
    /\ pc = "call"
    /\ op = "print_python"
    /\ st' = print_python(st, <<>>, PythonBody(arg))
    /\ pc' = "done"
    /\ UNCHANGED <<op, arg, ret>>

SpecPython == InitPrintPython /\ [][PrintPython]_vars

InitPrintNodes ==
    /\ op = "print_nodes"
    /\ \/ \E a \in SiblingInputs :
             arg = [built |-> TRUE, n |-> Len(a.siblings), text |-> SiblingsText(a),
                    extra_indent |-> a.extra_indent]
       \/ \E a \in PlainInputs :
             arg = [built |-> FALSE, n |-> 0, text |-> a.plain,
                    extra_indent |-> a.extra_indent]
    /\ st = FreshPrinter
    /\ ret = NoResult
    /\ pc = "call"

PrintNodes ==
    /\ pc = "call"
    /\ op = "print_nodes"
    /\ st' = print_nodes(st, arg.text, arg.extra_indent)
    /\ pc' = "done"
    /\ UNCHANGED <<op, arg, ret>>

SpecNodes == InitPrintNodes /\ [][PrintNodes]_vars

InitPrintNode ==
    /\ op = "print_node"
    /\ arg \in NodeInputs
    /\ st = NewPrinter(0, DefaultFlags, arg.order)
    /\ ret = NoResult
    /\ pc = "call"

PrintNode ==
    /\ pc = "call"
    /\ op = "print_node"
    /\ st' = print_node(st, <<>>, NodeBody(arg))
    /\ pc' = "done"
    /\ UNCHANGED <<op, arg, ret>>

SpecNode == InitPrintNode /\ [][PrintNode]_vars

InitPrintIf ==
    /\ op = "print_if"
    /\ arg \in IfInputs
    /\ st = NewPrinter(arg.lvl, DefaultFlags, RegistrationOrder)
    /\ ret = NoResult
    /\ pc = "call"

PrintIf ==
    /\ pc = "call"
    /\ op = "print_if"
    /\ st' = print_if(st, <<>>, IfBody(arg))
    /\ pc' = "done"
    /\ UNCHANGED <<op, arg, ret>>

SpecIf == InitPrintIf /\ [][PrintIf]_vars

InitPrintScreen ==
    /\ op = "print_screen"
    /\ arg \in ScreenInputs
    /\ st = NewPrinter(arg.lvl, arg.opt, RegistrationOrder)
    /\ ret = NoResult
    /\ pc = "call"

PrintScreen ==
    /\ pc = "call"
    /\ op = "print_screen"
    /\ st' = print_screen(st, arg)
    /\ pc' = "done"
    /\ UNCHANGED <<op, arg, ret>>

SpecScreen == InitPrintScreen /\ [][PrintScreen]_vars

InitPrintNested ==
    /\ op = "print_nested"
    /\ arg \in NestedInputs
    /\ st = FreshPrinter
    /\ ret = NoResult
    /\ pc = "call"

PrintNested ==
    /\ pc = "call"
    /\ op = "print_nested"
    /\ st' = print_nodes(st, NestedBody(arg, 1), 0)
    /\ pc' = "done"
    /\ UNCHANGED <<op, arg, ret>>

SpecNested == InitPrintNested /\ [][PrintNested]_vars

\* Every operation, applied to every input of its family
Init ==
    \/ InitParseArgs
    \/ InitPrintCondition
    \/ InitPrintPython
    \/ InitPrintNodes
    \/ InitPrintNode
    \/ InitPrintIf
    \/ InitPrintScreen
    \/ InitPrintNested

Next ==
    \/ ParseArgs
    \/ PrintCondition
    \/ PrintPython
    \/ PrintNodes
    \/ PrintNode
    \/ PrintIf
    \/ PrintScreen
    \/ PrintNested

Spec == Init /\ [][Next]_vars

\* ------------------------------------------------------------------------
\* Properties
\* ------------------------------------------------------------------------

\* the number of backslashes that stand directly before position k of s
BackslashesBefore(s, k) ==
    (k - 1) - MaxOf({i \in 1..(k - 1) : s[i] # BS} \cup {0})

\* The quote of the quoted string that is open after the first k characters of
\* s ("none" outside every string): a quote opens a string outside one, and
\* closes the string it opened when an even number of backslashes precede it.
RECURSIVE OpenQuote(_, _)
OpenQuote(s, k) ==
    IF k = 0 THEN "none"
    ELSE LET before == OpenQuote(s, k - 1)
         IN IF before = "none" THEN (IF IsQuote(s[k]) THEN s[k] ELSE "none")
            ELSE IF s[k] = before /\ BackslashesBefore(s, k) % 2 = 0 THEN "none"
            ELSE before

InsideQuoted(s, k) == OpenQuote(s, k - 1) # "none"

\* the brackets, parentheses and braces open after the first k characters of
\* s, those inside quoted strings not counted
RECURSIVE OpenContainers(_, _)
OpenContainers(s, k) ==
    IF k = 0 THEN 0
    ELSE OpenContainers(s, k - 1)
         + (IF InsideQuoted(s, k) \/ IsQuote(s[k]) THEN 0
            ELSE IF s[k] \in {"[", "(", "{"} THEN 1
            ELSE IF s[k] \in {"]", ")", "}"} THEN -1
            ELSE 0)

ParsedArgs == pc = "done" /\ op = "parse_args"

\* C7: parse_args splits at no comma that lies inside a quoted string (a quote
\* closing its string only after an even number of backslashes), and
\* f("a,b", x=1) parses to the positional "a,b", the keyword (x, 1) and no
\* variadic capture.
C7_QuotedCommasKept ==
    ParsedArgs =>
        /\ \A n \in 1..Len(ret.splits) : ~InsideQuoted(ret.inner, ret.splits[n])
        /\ arg.string = QuotedCall =>
              /\ ret.err = "ok"
              /\ ret.args = <<<<"\"", "a", ",", "b", "\"">>>>
              /\ ret.kwargs = << <<<<"x">>, <<"1">>>> >>
              /\ ret.exargs = NoCapture
              /\ ret.exkwargs = NoCapture

\* parse_args has split a string at a comma although an earlier comma stood
\* in a quoted string held open across an escaped quote
C7_Witness ==
    /\ ParsedArgs
    /\ ret.err = "ok"
    /\ Len(ret.splits) > 0
    /\ \E k \in 1..Len(ret.inner) :
          /\ ret.inner[k] = ","
          /\ InsideQuoted(ret.inner, k)
          /\ \E j \in 1..(k - 1) : IsQuote(ret.inner[j]) /\ BackslashesBefore(ret.inner, j) = 1

\* C8 (amended): parse_args splits at no comma nested in brackets,
\* parentheses or braces, and f([1,2,3], y={'a':1}) parses to two arguments,
\* the positional [1,2,3] and the keyword (y, {'a':1}).
C8_NestedCommasKept ==
    ParsedArgs =>
        /\ \A n \in 1..Len(ret.splits) : OpenContainers(ret.inner, ret.splits[n] - 1) = 0
        /\ arg.string = NestedCall =>
              /\ ret.err = "ok"
              /\ ret.args = <<<<"[", "1", ",", "2", ",", "3", "]">>>>
              /\ ret.kwargs = << <<<<"y">>, <<"{", "'", "a", "'", ":", "1", "}">>>> >>

\* parse_args has parsed a string with a comma nested in a container and
\* split it at another comma
C8_Witness ==
    /\ ParsedArgs
    /\ ret.err = "ok"
    /\ Len(ret.splits) > 0
    /\ \E k \in 1..Len(ret.inner) :
          ret.inner[k] = "," /\ OpenContainers(ret.inner, k - 1) > 0

\* C8: f([1,2,3], y={'a':1}) parses to two positional arguments.
C8_TwoPositional ==
    (ParsedArgs /\ arg.string = NestedCall) => Len(ret.args) = 2

\* the (header, body) pairs given to print_node, one after the other
RECURSIVE PairsText(_)
PairsText(calls) ==
    IF calls = <<>> THEN <<>>
    ELSE calls[1][1] \o calls[1][2] \o PairsText(Tail(calls))

SplitNodes == pc = "done" /\ op = "print_nodes"

\* C2: for a text built from N sibling headers of one parent and texts that
\* hold no header, print_nodes calls print_node N times, each time with a
\* header, and the pairs it passes, in the order it passes them, make up the
\* text.
C2_SplitComplete ==
    (SplitNodes /\ arg.built) =>
        /\ Len(st.calls) = arg.n
        /\ \A k \in 1..Len(st.calls) : parse_header(st.calls[k][1]).ok
        /\ PairsText(st.calls) = arg.text

\* C4: on a text that holds no header print_nodes calls print_node for no
\* child, writes nothing and raises nothing.
C4_NoHeaderNoChildren ==
    (SplitNodes /\ ~arg.built) =>
        /\ st.err = "ok"
        /\ st.calls = <<>>
        /\ st.out = <<>>

PrintedPython == pc = "done" /\ op = "print_python"

\* the lines of the body that are not blank, and their least indentation
CodeLines(a) == {n \in 1..Len(a.lines) : a.lines[n].text # <<>>}
MinIndent(a) == MinOf({a.lines[n].ind : n \in CodeLines(a)})

\* a body of one code line gives the one line "$ <code>"
InlineEmitted ==
    Cardinality(CodeLines(arg)) = 1 =>
        st.out = <<[lvl |-> arg.lvl,
                    txt |-> <<"$", " ">> \o arg.lines[MinOf(CodeLines(arg))].text]>>

\* a body of several code lines gives "python:" and below it, one level
\* deeper, a line for every line of the body
BlockEmitted ==
    Cardinality(CodeLines(arg)) > 1 =>
        /\ Len(st.out) = 1 + Len(arg.lines)
        /\ st.out[1] = [lvl |-> arg.lvl, txt |-> <<"p", "y", "t", "h", "o", "n", ":">>]
        /\ \A n \in 1..Len(arg.lines) : st.out[n + 1].lvl = arg.lvl + 1

\* every code line is written whole, with the body's least indentation cut off
\* its front
CodeLinesKept ==
    \A n \in CodeLines(arg) :
        st.out[n + 1].txt = Blanks(arg.lines[n].ind - MinIndent(arg)) \o arg.lines[n].text

\* C6: print_python writes a body of one code line as "$ <code>",
\* and a body of several as "python:" with every line below it one level
\* deeper, each code line whole and indented relative to the least
\* indentation of the body.
C6_MinimumIndentation ==
    PrintedPython =>
        /\ st.err = "ok"
        /\ InlineEmitted
        /\ BlockEmitted
        /\ Cardinality(CodeLines(arg)) > 1 => CodeLinesKept

PrintedCondition == pc = "done" /\ op = "print_condition"

\* C9: for an if or elif line print_condition writes the statement, the text
\* between it and the colon, stripped and otherwise unchanged, and a colon.
C9_ConditionVerbatim ==
    (PrintedCondition /\ arg.statement \in {KwIf, KwElif}) =>
        /\ st.err = "ok"
        /\ st.out[Len(st.out)].txt = arg.statement \o <<" ">> \o Strip(arg.cond) \o <<":">>

PrintedIf == pc = "done" /\ op = "print_if"

\* the lines an if statement is to give: for every branch in turn its keyword
\* line at the level of the statement, then its children one level deeper
ExpectedChild(a, b, j) ==
    [lvl |-> a.lvl + 1,
     txt |-> IF ChildKind(a, b, j) = "widget"
             THEN <<"t", "e", "x", "t", " ">> \o ChildLabel(b, j)
             ELSE <<"$", " ">> \o ChildLabel(b, j) \o <<" ", "=", " ", "1">>]
ExpectedBranch(a, b) ==
    <<[lvl |-> a.lvl, txt |-> BranchKeyword(a, b)]>>
    \o [j \in 1..a.children[b] |-> ExpectedChild(a, b, j)]
ExpectedIf(a) == Flatten([b \in 1..Branches(a) |-> ExpectedBranch(a, b)])

\* C1: for an if/elif/else body whose second line is a header, print_if writes
\* the branch keywords in source order at the level of the statement, and
\* below each keyword, one level deeper, the children of that branch and no
\* others, in their order.
C1_BranchesInOrder ==
    PrintedIf =>
        /\ st.err = "ok"
        /\ st.lvl = arg.lvl
        /\ st.out = ExpectedIf(arg)

\* print_if has printed an indented statement of an if branch, MaxElif elif
\* branches and an else branch, a branch of two children among them, every
\* branch with a header of its own
C1_Witness ==
    /\ PrintedIf
    /\ arg.elifs = MaxElif
    /\ arg.has_else
    /\ arg.layout = "double"
    /\ arg.lead = 4
    /\ \E b \in 1..Branches(arg) : arg.children[b] = 2
    /\ st.err = "ok"
    /\ Len(st.out) > Branches(arg) + 1

PrintedNode == pc = "done" /\ op = "print_node"

\* the code print_node looks up: the body after the swallowed line "_n = 0"
NodeCode(a) ==
    LET split == Split1(NodeBody(a), <<NL>>)
    IN IF SwallowsFirstLine(NodeBody(a)) /\ Len(split) = 2 THEN split[2] ELSE NodeBody(a)

\* the code begins with no registered statement, or it begins with "if" or
\* "for" and has no header on a second line
Fallback(code) ==
    LET lines == SplitLines(code)
    IN \/ Matching(code) = {}
       \/ /\ \/ StartsWith(LStrip(code), KwIf)
             \/ StartsWith(LStrip(code), KwFor)
          /\ (Len(lines) < 2 \/ ~parse_header(lines[2]).ok)

\* C3: a body that begins with no registered statement, or that begins with
\* "if" or "for" and has no header on its second line (a body of one line
\* included), is written by print_python, and print_node raises nothing.
C3_FallbackNeverRaises ==
    (PrintedNode /\ Fallback(NodeCode(arg))) =>
        /\ st.err = "ok"
        /\ \E k \in 1..Len(st.rets) : st.rets[k].fn = "print_python"

\* C10: print_node invokes the same handler, and writes the same lines,
\* whatever order the registry is iterated in; any two registered statements
\* that begin the same code name the same handler.
C10_OrderIndependent ==
    PrintedNode =>
        /\ \A j, k \in Matching(NodeCode(arg)) : dispatch[j].func = dispatch[k].func
        /\ \A order \in Orders :
              LET other == print_node(NewPrinter(0, DefaultFlags, order), <<>>, NodeBody(arg))
              IN /\ other.disp = st.disp
                 /\ other.out = st.out
                 /\ other.err = st.err

\* print_node has printed, the registry iterated in reverse, a code that two
\* registered statements begin
C10_Witness ==
    /\ PrintedNode
    /\ arg.order = ReverseOrder
    /\ Cardinality(Matching(NodeCode(arg))) > 1
    /\ arg.tail # <<>>
    /\ st.err = "ok"
    /\ st.disp # <<>>
    /\ st.out # <<>>

PrintedScreen == pc = "done" /\ op = "print_screen"

\* C5: every printing method that has returned, print_screen and the methods
\* it called, has returned with indent_level as it was on entry.
C5_IndentBalanced ==
    PrintedScreen =>
        \A k \in 1..Len(st.rets) : st.rets[k].exit = st.rets[k].entry

PrintedNested == pc = "done" /\ op = "print_nested"

\* the call of print_nodes that led to the logged call c: the innermost one
\* on the stack c was made on (0 if there is none)
Leading(c) == MaxOf({j \in 1..Len(c.from) : c.from[j].fn = "print_nodes"} \cup {0})

\* C11: every call of print_nodes made while another call of print_nodes has
\* not returned receives a text strictly shorter than that call's text, so that
\* calls nest no deeper than the outermost text is long; and no call of
\* print_nodes or print_python is made while a call of print_python has not
\* returned.
C11_TextShrinks ==
    pc = "done" =>
        \A k \in 1..Len(st.entered) :
            LET c == st.entered[k]
            IN /\ \A j \in 1..Len(c.from) : c.from[j].fn # "print_python"
               /\ (c.fn = "print_nodes" /\ Leading(c) # 0) =>
                      c.text < c.from[Leading(c)].text
               /\ c.from # <<>> => Len(c.from) <= c.from[1].text

\* a body printed without error in which print_nodes was reached three calls
\* deep, through print_ui and through print_block, and print_python was called
\* two calls deep
C11_Witness ==
    /\ PrintedNested
    /\ st.err = "ok"
    /\ "print_ui" \in {st.disp[k] : k \in 1..Len(st.disp)}
    /\ {"print_if", "print_for"} \cap {st.disp[k] : k \in 1..Len(st.disp)} # {}
    /\ \E k \in 1..Len(st.entered) :
          st.entered[k].fn = "print_nodes" /\ Len(st.entered[k].from) = 2
    /\ \E k \in 1..Len(st.entered) :
          st.entered[k].fn = "print_python" /\ Len(st.entered[k].from) >= 2

====
